---- MODULE Spec2Model ----
(***************************************************************************)
(* Hotel booking API (src/main.py): the rooms / bookings / users tables    *)
(* and the request handlers that read and write them.  Every handler is    *)
(* split at its db.commit() calls, so that the states other requests (or   *)
(* a crash) can observe are exactly the committed states of the store.     *)
(* The server is one process: the coroutines (async def handlers) run one  *)
(* at a time on its event loop, the plain handlers on threads of its pool. *)
(* Spec has one pool thread; PoolSpec runs cancel_booking on two pool      *)
(* threads, TwoServerSpec runs confirm_booking in two server processes.    *)
(***************************************************************************)
EXTENDS Integers, Sequences, FiniteSets, TLC

\* ---------------------------------------------------------------- bounds
MaxDay == 3          \* calendar dates are the day numbers 1..MaxDay
MaxBookings == 2     \* rows ever inserted into bookings (AUTO_INCREMENT cap)
MaxUsers == 2        \* rows ever inserted into users (AUTO_INCREMENT cap)

\* ------------------------------------------------------------ input sets
LoopProcs == {1}                      \* the event loop: async def handlers
ThreadProcs == {2}                    \* a threadpool worker: def handlers
\* the event loops of two server processes that use the same database
ServerLoops == LoopProcs \cup {3}
\* two workers of the threadpool of one server process
PoolThreads == ThreadProcs \cup {4}
Procs == ServerLoops \cup PoolThreads
Days == 1..MaxDay
\* (check_in, check_out) of booking requests: two adjacent stays and one
\* pair with check_in = check_out (no handler rejects it)
Ranges == {<<1, 2>>, <<2, 3>>, <<2, 2>>}
\* (check_in, check_out) of availability requests
QueryRanges == Ranges \cup {<<1, MaxDay>>}
Emails == {"a@x.com"}
Codes == {"AB12C", "ZZ99Z"}           \* values generate_booking_code can draw
UserIds == {1}                        \* user_id values a /book request carries
NULL == 0                             \* SQL NULL in an integer column
NULLCODE == "NULL"                    \* SQL NULL in the book_id column

\* rooms table: provisioned out of band, never inserted or deleted by the API
RoomTable == {[id |-> 1, room_number |-> 101], [id |-> 2, room_number |-> 102]}
RoomIds == {r.id : r \in RoomTable}

\* room_numbers lists of confirm_booking requests; 999 is not in the rooms table
RoomLists == {<<>>, <<101>>, <<101, 101>>, <<101, 102>>, <<101, 999>>}

VARIABLES
    users,          \* users table: set of [id, email]
    bookings,       \* bookings table: set of rows
    roomStatus,     \* rooms.status, by room id
    nextBookingId,  \* AUTO_INCREMENT of bookings.id
    nextUserId,     \* AUTO_INCREMENT of users.id
    pc,             \* position of every worker inside its handler
    req,            \* the request a worker is serving
    loc,            \* the handler's local variables
    out             \* the HTTP response sent by the latest step, if it sent one

vars == <<users, bookings, roomStatus, nextBookingId, nextUserId, pc, req, loc, out>>
store == <<users, bookings, roomStatus, nextBookingId, nextUserId>>

\* ------------------------------------------------------------- records
NoReq == [op |-> "none", email |-> "", check_in |-> 0, check_out |-> 0,
          room_numbers |-> <<>>, book_code |-> "", user_id |-> 0]
NoBooking == [id |-> 0, user_id |-> 0, room_id |-> 0, check_in |-> 0, check_out |-> 0,
              book_id |-> ""]
NoLoc == [user_id |-> 0, i |-> 0, room_id |-> 0, booking_ids |-> <<>>,
          booking |-> NoBooking, unread |-> FALSE]
NoOut == [proc |-> 0, req |-> NoReq, status |-> 0, detail |-> "", rooms |-> {},
          booking_ids |-> <<>>, booking |-> NoBooking, mail |-> <<>>]

\* a step that sends no response
Silent == out' = NoOut

\* worker p sends its response and is free for the next request
Respond(p, request, status, detail, rooms, booking_ids, mail) ==
    /\ out' = [proc |-> p, req |-> request, status |-> status, detail |-> detail,
               rooms |-> rooms, booking_ids |-> booking_ids,
               booking |-> loc[p].booking, mail |-> mail]
    /\ pc' = [pc EXCEPT ![p] = "idle"]
    /\ req' = [req EXCEPT ![p] = NoReq]
    /\ loc' = [loc EXCEPT ![p] = NoLoc]

\* raise HTTPException(status_code, detail), or an uncaught exception (500)
HTTPException(p, request, status_code, detail) ==
    Respond(p, request, status_code, detail, {}, <<>>, <<>>)

\* ----------------------------------------------------- availability query
\* the overlap test with its two parameters bound in the wrong order
OverlapsSwapped(b, ci, co) == ~(b.check_out <= co \/ b.check_in >= ci)

\* WHERE NOT (check_out <= %s OR check_in >= %s), parameters (check_in, check_out)
Overlaps(b, ci, co) == ~(b.check_out <= ci \/ b.check_in >= co)

\* SQL "x NOT IN (subquery)": TRUE only when x matches nothing and the
\* subquery produced no NULL; otherwise FALSE or UNKNOWN, and the row is dropped
NotIn(x, S) == x \notin S /\ NULL \notin S

\* rows of rooms returned by the SELECT of get_free_rooms
FreeRoomRows(bks, ci, co) ==
    LET sub == {b.room_id : b \in {x \in bks : Overlaps(x, ci, co)}}
    IN  {r \in RoomTable : NotIn(r.id, sub)}

Init ==
    /\ users = {}
    /\ bookings = {}
    /\ roomStatus = [r \in RoomIds |-> "free"]
    /\ nextBookingId = 1
    /\ nextUserId = 1
    /\ pc = [p \in Procs |-> "idle"]
    /\ req = [p \in Procs |-> NoReq]
    /\ loc = [p \in Procs |-> NoLoc]
    /\ out = NoOut

\* POST /rooms/free: one SELECT, 404 when it returns no row
get_free_rooms(p, ci, co) ==
    /\ pc[p] = "idle"
    /\ LET free_rooms == FreeRoomRows(bookings, ci, co)
           request == [NoReq EXCEPT !.op = "get_free_rooms",
                                    !.check_in = ci, !.check_out = co]
       IN  IF free_rooms = {}
           THEN HTTPException(p, request, 404, "No rooms available for these dates")
           ELSE Respond(p, request, 200, "", {r.id : r \in free_rooms}, <<>>, <<>>)
    /\ UNCHANGED store

\* ------------------------------------------------------- confirm_booking
\* confirm_booking with the empty-list check placed below the user
\* lookup-or-create
confirm_booking_checks_late(p, email, ci, co, room_numbers) ==
    /\ pc[p] = "idle"
    /\ LET request == [NoReq EXCEPT !.op = "confirm_booking", !.email = email,
                 !.check_in = ci, !.check_out = co, !.room_numbers = room_numbers]
           rows == {u \in users : u.email = email}
       IN  IF room_numbers = <<>>
           THEN /\ HTTPException(p, request, 400, "At least one room must be provided")
                /\ IF rows = {} /\ nextUserId <= MaxUsers
                   THEN /\ users' = users \cup {[id |-> nextUserId, email |-> email]}
                        /\ nextUserId' = nextUserId + 1
                   ELSE UNCHANGED <<users, nextUserId>>
           ELSE /\ req' = [req EXCEPT ![p] = request]
                /\ IF rows = {}
                   THEN /\ loc' = [loc EXCEPT ![p] = [NoLoc EXCEPT !.i = 1]]
                        /\ pc' = [pc EXCEPT ![p] = "insert_user"]
                   ELSE /\ \E row \in rows :
                              loc' = [loc EXCEPT ![p] = [NoLoc EXCEPT !.i = 1,
                                        !.user_id = row.id,
                                        !.unread = Cardinality(rows) > 1]]
                        /\ pc' = [pc EXCEPT ![p] = "room"]
                /\ Silent
                /\ UNCHANGED <<users, nextUserId>>
    /\ UNCHANGED <<bookings, roomStatus, nextBookingId>>

\* lines 139-159: parse the request, reject an empty room list, look the
\* user up by email.  fetchone() takes one of the matching rows; when more
\* rows matched, the rest of the result set is left unread on the cursor.
confirm_booking(p, email, ci, co, room_numbers) ==
    /\ pc[p] = "idle"
    /\ LET request == [NoReq EXCEPT !.op = "confirm_booking", !.email = email,
                 !.check_in = ci, !.check_out = co, !.room_numbers = room_numbers]
           rows == {u \in users : u.email = email}
       IN  IF room_numbers = <<>>
           THEN HTTPException(p, request, 400, "At least one room must be provided")
           ELSE /\ req' = [req EXCEPT ![p] = request]
                /\ IF rows = {}
                   THEN /\ loc' = [loc EXCEPT ![p] = [NoLoc EXCEPT !.i = 1]]
                        /\ pc' = [pc EXCEPT ![p] = "insert_user"]
                   ELSE /\ \E row \in rows :
                              loc' = [loc EXCEPT ![p] = [NoLoc EXCEPT !.i = 1,
                                        !.user_id = row.id,
                                        !.unread = Cardinality(rows) > 1]]
                        /\ pc' = [pc EXCEPT ![p] = "room"]
                /\ Silent
    /\ UNCHANGED store

\* lines 161-166: INSERT INTO users, commit, user_id = lastrowid
confirm_insert_user(p) ==
    /\ pc[p] = "insert_user"
    /\ nextUserId <= MaxUsers
    /\ users' = users \cup {[id |-> nextUserId, email |-> req[p].email]}
    /\ nextUserId' = nextUserId + 1
    /\ loc' = [loc EXCEPT ![p].user_id = nextUserId]
    /\ pc' = [pc EXCEPT ![p] = "room"]
    /\ Silent
    /\ UNCHANGED <<bookings, roomStatus, nextBookingId, req>>

\* lines 371-374: random.choices over the alphabet, nothing else
generate_booking_code == Codes

\* lines 171-187: one loop iteration up to the commit of the booking row
confirm_room(p) ==
    /\ pc[p] = "room"
    /\ LET room_number == req[p].room_numbers[loc[p].i]
           rooms == {r \in RoomTable : r.room_number = room_number}
       IN  \E raises \in (IF loc[p].unread THEN BOOLEAN ELSE {FALSE}) :
           IF raises
           THEN \* cursor.execute with an unread result: InternalError, uncaught
                /\ HTTPException(p, req[p], 500, "Unread result found")
                /\ UNCHANGED store
           ELSE IF rooms = {}
           THEN /\ HTTPException(p, req[p], 400, "Room does not exist")
                /\ UNCHANGED store
           ELSE /\ nextBookingId <= MaxBookings
                /\ \E room \in rooms, book_code \in generate_booking_code :
                     /\ bookings' = bookings \cup
                          {[id |-> nextBookingId, user_id |-> loc[p].user_id,
                            room_id |-> room.id, check_in |-> req[p].check_in,
                            check_out |-> req[p].check_out, book_id |-> book_code]}
                     /\ loc' = [loc EXCEPT ![p].room_id = room.id,
                                           ![p].unread = FALSE,
                                           ![p].booking_ids = Append(@,
                                               [id |-> nextBookingId, book_code |-> book_code])]
                /\ nextBookingId' = nextBookingId + 1
                /\ pc' = [pc EXCEPT ![p] = "status"]
                /\ Silent
                /\ UNCHANGED <<users, roomStatus, nextUserId, req>>

\* confirm_status with the notification sent from inside the loop, after the
\* first room
confirm_status_mail_in_loop(p) ==
    /\ pc[p] = "status"
    /\ roomStatus' = [roomStatus EXCEPT ![loc[p].room_id] = "booked"]
    /\ loc' = [loc EXCEPT ![p].i = @ + 1]
    /\ pc' = [pc EXCEPT ![p] = "email"]
    /\ Silent
    /\ UNCHANGED <<users, bookings, nextBookingId, nextUserId, req>>

\* lines 189-194: UPDATE rooms SET status = 'booked', commit, next iteration
confirm_status(p) ==
    /\ pc[p] = "status"
    /\ roomStatus' = [roomStatus EXCEPT ![loc[p].room_id] = "booked"]
    /\ loc' = [loc EXCEPT ![p].i = @ + 1]
    /\ pc' = [pc EXCEPT ![p] =
                IF loc[p].i = Len(req[p].room_numbers) THEN "email" ELSE "room"]
    /\ Silent
    /\ UNCHANGED <<users, bookings, nextBookingId, nextUserId, req>>

\* lines 199-201: zip(room_numbers, booking_ids)
booking_info_for_email(room_numbers, booking_ids) ==
    [k \in 1..(IF Len(room_numbers) < Len(booking_ids)
               THEN Len(room_numbers) ELSE Len(booking_ids)) |->
        [room_number |-> room_numbers[k], book_code |-> booking_ids[k].book_code]]

\* line 203: the recipient the handler passes to send_booking_email
HotelInbox == "lecieris00@gmail.com"

\* lines 321-367: the message handed to SMTP
send_booking_email(to_email, rows) == [to |-> to_email, rows |-> rows]

\* lines 196-221: after the loop; an SMTP failure propagates as a 500
confirm_email(p) ==
    /\ pc[p] = "email"
    /\ \E delivered \in BOOLEAN :
         IF delivered
         THEN Respond(p, req[p], 200, "successfully confirmed", {}, loc[p].booking_ids,
                  <<send_booking_email(HotelInbox,
                      booking_info_for_email(req[p].room_numbers, loc[p].booking_ids))>>)
         ELSE Respond(p, req[p], 500, "SMTP error", {}, loc[p].booking_ids, <<>>)
    /\ UNCHANGED store

\* ------------------------------------------------------------- book_room
\* lines 226-237: INSERT INTO bookings (user_id, check_in, check_out); the
\* row gets no room_id and no book_id
book_room(p, user_id, ci, co) ==
    /\ pc[p] = "idle"
    /\ nextBookingId <= MaxBookings
    /\ bookings' = bookings \cup
         {[id |-> nextBookingId, user_id |-> user_id, room_id |-> NULL,
           check_in |-> ci, check_out |-> co, book_id |-> NULLCODE]}
    /\ nextBookingId' = nextBookingId + 1
    /\ Respond(p, [NoReq EXCEPT !.op = "book_room", !.user_id = user_id,
                                !.check_in = ci, !.check_out = co],
               200, "Booking successful", {},
               <<[id |-> nextBookingId, book_code |-> NULLCODE]>>, <<>>)
    /\ UNCHANGED <<users, roomStatus, nextUserId>>

\* --------------------------------------------------------- cancel_booking
\* line 286: SELECT ... FROM bookings WHERE book_id = %s
cancel_lookup(bks, book_code) == {b \in bks : b.book_id = book_code}

\* line 295: DELETE FROM bookings WHERE id = %s
delete_booking(bks, id) == {b \in bks : b.id # id}

\* an UPDATE rooms SET status = 'free' without its WHERE clause
free_room_all(rs, room_id) == [r \in RoomIds |-> "free"]

\* line 299: UPDATE rooms SET status = 'free' WHERE id = %s
free_room(rs, room_id) == [r \in RoomIds |-> IF r = room_id THEN "free" ELSE rs[r]]

\* lines 281-292: SELECT ... WHERE book_id = %s, fetchone, 404 when no row
cancel_booking(p, book_code) ==
    /\ pc[p] = "idle"
    /\ LET request == [NoReq EXCEPT !.op = "cancel_booking", !.book_code = book_code]
           rows == cancel_lookup(bookings, book_code)
       IN  IF rows = {}
           THEN HTTPException(p, request, 404, "Booking not found")
           ELSE /\ req' = [req EXCEPT ![p] = request]
                /\ \E booking \in rows :
                     loc' = [loc EXCEPT ![p] = [NoLoc EXCEPT !.booking = booking,
                               !.unread = Cardinality(rows) > 1]]
                /\ pc' = [pc EXCEPT ![p] = "delete"]
                /\ Silent
    /\ UNCHANGED store

\* lines 294-296: DELETE FROM bookings WHERE id = %s, commit
cancel_delete(p) ==
    /\ pc[p] = "delete"
    /\ \E raises \in (IF loc[p].unread THEN BOOLEAN ELSE {FALSE}) :
         IF raises
         THEN /\ HTTPException(p, req[p], 500, "Unread result found")
              /\ UNCHANGED bookings
         ELSE /\ bookings' = delete_booking(bookings, loc[p].booking.id)
              /\ pc' = [pc EXCEPT ![p] = "free"]
              /\ Silent
              /\ UNCHANGED <<req, loc>>
    /\ UNCHANGED <<users, roomStatus, nextBookingId, nextUserId>>

\* lines 298-318: UPDATE rooms SET status = 'free' WHERE id = room_id, commit
cancel_status(p) ==
    /\ pc[p] = "free"
    /\ roomStatus' = free_room(roomStatus, loc[p].booking.room_id)
    /\ Respond(p, req[p], 200, "successfully canceled", {}, <<>>, <<>>)
    /\ UNCHANGED <<users, bookings, nextBookingId, nextUserId>>

\* ------------------------------------------------- get_bookings, create_user
\* lines 241-276: the room-status listing; rooms carries the booked rooms
get_bookings(p) ==
    /\ pc[p] = "idle"
    /\ Respond(p, [NoReq EXCEPT !.op = "get_bookings"], 200, "status",
               {r \in RoomIds : roomStatus[r] = "booked"}, <<>>, <<>>)
    /\ UNCHANGED store

\* lines 85-105: the statement has three placeholders for two values, so
\* cursor.execute raises ProgrammingError; rollback, 400
create_user(p, email) ==
    /\ pc[p] = "idle"
    /\ HTTPException(p, [NoReq EXCEPT !.op = "create_user", !.email = email],
                     400, "Not enough parameters for the SQL statement")
    /\ UNCHANGED store

\* the server process dies between two commits of its handlers; what was
\* committed stays, the rest of the handlers never runs, nothing is sent
Crash ==
    /\ \E p \in Procs : pc[p] # "idle"
    /\ pc' = [p \in Procs |-> "idle"]
    /\ req' = [p \in Procs |-> NoReq]
    /\ loc' = [p \in Procs |-> NoLoc]
    /\ Silent
    /\ UNCHANGED store

\* the result of cancel_booking(book_code) run from store (bks, rs) with no
\* other request in between: every (bookings, roomStatus, status) it can end in
CancelOutcomes(bks, rs, book_code) ==
    LET rows == cancel_lookup(bks, book_code)
    IN  IF rows = {}
        THEN {[bookings |-> bks, roomStatus |-> rs, status |-> 404]}
        ELSE {[bookings |-> delete_booking(bks, b.id),
               roomStatus |-> free_room(rs, b.room_id), status |-> 200] : b \in rows}
             \cup (IF Cardinality(rows) > 1
                   THEN {[bookings |-> bks, roomStatus |-> rs, status |-> 500]}
                   ELSE {})

\* a request arrives and its handler runs up to its first commit or response
Start ==
    \/ \E p \in ThreadProcs, r \in QueryRanges : get_free_rooms(p, r[1], r[2])
    \/ \E p \in LoopProcs, email \in Emails, r \in Ranges, rns \in RoomLists :
          confirm_booking(p, email, r[1], r[2], rns)
    \/ \E p \in ThreadProcs, user_id \in UserIds, r \in Ranges :
          book_room(p, user_id, r[1], r[2])
    \/ \E p \in ThreadProcs, book_code \in Codes : cancel_booking(p, book_code)
    \/ \E p \in LoopProcs : get_bookings(p)
    \/ \E p \in ThreadProcs, email \in Emails : create_user(p, email)

\* a running handler takes its next step
Continue ==
    \/ \E p \in LoopProcs : confirm_insert_user(p)
    \/ \E p \in LoopProcs : confirm_room(p)
    \/ \E p \in LoopProcs : confirm_status(p)
    \/ \E p \in LoopProcs : confirm_email(p)
    \/ \E p \in ThreadProcs : cancel_delete(p)
    \/ \E p \in ThreadProcs : cancel_status(p)

Next == Start \/ Continue \/ Crash

Spec == Init /\ [][Next]_vars

\* requests arrive one at a time and the server never dies: a request is
\* taken only when no handler is running
SeqNext ==
    \/ (\A p \in Procs : pc[p] = "idle") /\ Start
    \/ Continue

SeqSpec == Init /\ [][SeqNext]_vars

\* two server processes on the one database: each runs its confirm_booking
\* coroutines on its own event loop, so the steps of two of them interleave
TwoServerNext ==
    \/ \E p \in ServerLoops, email \in Emails : confirm_booking(p, email, 1, 2, <<101>>)
    \/ \E p \in ServerLoops : confirm_insert_user(p)
    \/ \E p \in ServerLoops : confirm_room(p)
    \/ \E p \in ServerLoops : confirm_status(p)
    \/ \E p \in ServerLoops : confirm_email(p)
    \/ \E p \in ThreadProcs, email \in Emails : create_user(p, email)

TwoServerSpec == Init /\ [][TwoServerNext]_vars

\* one server process whose threadpool runs two cancel_booking calls at a time
PoolNext ==
    \/ \E p \in LoopProcs, email \in Emails, rns \in {<<101>>, <<101, 102>>} :
          confirm_booking(p, email, 1, 2, rns)
    \/ \E p \in LoopProcs : confirm_insert_user(p)
    \/ \E p \in LoopProcs : confirm_room(p)
    \/ \E p \in LoopProcs : confirm_status(p)
    \/ \E p \in LoopProcs : confirm_email(p)
    \/ \E p \in PoolThreads, book_code \in Codes : cancel_booking(p, book_code)
    \/ \E p \in PoolThreads : cancel_delete(p)
    \/ \E p \in PoolThreads : cancel_status(p)

PoolSpec == Init /\ [][PoolNext]_vars

\* ------------------------------------------------------------------ claims
\* the active bookings that reference room r
BookingsOn(r) == {b \in bookings : b.room_id = r}

\* C1: no double booking -- two distinct active bookings on the same room
\* never have overlapping half-open date intervals.
C1_NoDoubleBooking ==
    \A b1 \in bookings, b2 \in bookings :
        (b1.id # b2.id /\ b1.room_id # NULL /\ b1.room_id = b2.room_id)
            => (b1.check_out <= b2.check_in \/ b1.check_in >= b2.check_out)

\* C2: soundness of availability -- a room returned by get_free_rooms(ci, co)
\* has no active booking b with NOT (b.check_out <= ci OR b.check_in >= co):
\* for the response just sent, and for every request that could be sent now.
C2_FreeRoomsSound ==
    /\ (out.req.op = "get_free_rooms" /\ out.status = 200) =>
          \A r \in out.rooms :
              ~\E b \in bookings :
                  /\ b.room_id = r
                  /\ ~(b.check_out <= out.req.check_in \/ b.check_in >= out.req.check_out)
    /\ \A ci \in Days, co \in Days :
          \A r \in FreeRoomRows(bookings, ci, co) :
              ~\E b \in bookings :
                  b.room_id = r.id /\ ~(b.check_out <= ci \/ b.check_in >= co)

\* C2 witness: a query answered with a non-empty list that leaves out a room
\* because that room has a booking overlapping the requested range
C2_Witness ==
    /\ out.req.op = "get_free_rooms"
    /\ out.status = 200
    /\ out.rooms # {}
    /\ \E r \in RoomIds \ out.rooms : \E b \in bookings :
          /\ b.room_id = r
          /\ b.check_out > out.req.check_in
          /\ b.check_in < out.req.check_out

\* C3: completeness of availability -- get_free_rooms(ci, co) returns exactly
\* the rooms that have no booking overlapping [ci, co).
C3_FreeRoomsComplete ==
    out.req.op = "get_free_rooms" =>
        out.rooms = {r \in RoomIds :
                        ~\E b \in BookingsOn(r) :
                            ~(b.check_out <= out.req.check_in
                              \/ b.check_in >= out.req.check_out)}

\* C4: once every started confirm_booking and cancel_booking has completed, a
\* room's status is "booked" if and only if an active booking references it.
C4_StatusTracksBookings ==
    (\A p \in Procs : pc[p] = "idle") =>
        \A r \in RoomIds : (roomStatus[r] = "booked") <=> (BookingsOn(r) # {})

\* C5: no two active bookings carry the same booking code.
C5_UniqueCodes ==
    \A b1 \in bookings, b2 \in bookings :
        (b1.id # b2.id /\ b1.book_id # NULLCODE) => b1.book_id # b2.book_id

\* C6: all-or-nothing -- when confirm_booking fails on an unknown room number,
\* the bookings are as they were before the request: no row that the request
\* inserted for a room preceding the unknown one is in the table.
C6_AllOrNothing ==
    [][\A p \in Procs :
          (pc[p] = "room" /\ out'.proc = p /\ out'.detail = "Room does not exist")
              => \A k \in 1..Len(loc[p].booking_ids) :
                    \A b \in bookings' : b.id # loc[p].booking_ids[k].id]_vars

\* C7: the booking row and the room status change together -- no committed
\* state has a room marked "booked" with no booking, or a booking just
\* inserted by confirm_booking whose room is not marked "booked".
C7_AtomicWrites ==
    /\ \A r \in RoomIds : roomStatus[r] = "booked" => BookingsOn(r) # {}
    /\ \A p \in Procs :
          (pc[p] = "status" /\ \E b \in bookings :
                                  b.id = loc[p].booking_ids[Len(loc[p].booking_ids)].id)
              => roomStatus[loc[p].room_id] = "booked"

\* C8: round trip -- when a single-room confirm_booking has succeeded and the
\* booking it created is in the table, cancel_booking with the code that
\* booking was given, run next, leaves the room "free" and the booking
\* absent, whichever way the cancellation runs.
C8_RoundTrip ==
    (out.req.op = "confirm_booking" /\ out.status = 200
        /\ Len(out.req.room_numbers) = 1
        /\ \E b \in bookings : b.id = out.booking_ids[1].id) =>
        \A o \in CancelOutcomes(bookings, roomStatus, out.booking_ids[1].book_code) :
            /\ \A b \in o.bookings : b.id # out.booking_ids[1].id
            /\ \A r \in RoomTable :
                  r.room_number = out.req.room_numbers[1] => o.roomStatus[r.id] = "free"

\* C9: cancel then requery -- after a successful cancel_booking of the only
\* booking on a room, get_free_rooms for the cancelled range returns that room.
C9_CancelThenRequery ==
    (out.req.op = "cancel_booking" /\ out.status = 200
        /\ out.booking.room_id # NULL /\ BookingsOn(out.booking.room_id) = {}) =>
        \E r \in FreeRoomRows(bookings, out.booking.check_in, out.booking.check_out) :
            r.id = out.booking.room_id

\* C10: half-open intervals -- when the only booking of a room covers [a, b),
\* the room is returned for (b, c), c > b, and for (z, a), z < a, and is not
\* returned for any (x, y) with x < y, x < b and y > a.
C10_HalfOpen ==
    \A r \in RoomTable : \A bk \in BookingsOn(r.id) :
        (BookingsOn(r.id) = {bk} /\ bk.check_in < bk.check_out) =>
            /\ \A c \in Days : c > bk.check_out => r \in FreeRoomRows(bookings, bk.check_out, c)
            /\ \A z \in Days : z < bk.check_in => r \in FreeRoomRows(bookings, z, bk.check_in)
            /\ \A x \in Days, y \in Days :
                  (x < y /\ x < bk.check_out /\ y > bk.check_in)
                      => r \notin FreeRoomRows(bookings, x, y)

C12_DateOrder ==
    \A b \in bookings : b.check_in < b.check_out

\* C13: one user per email -- no two users rows have the same email, a
\* create_user request resolves its email to a user (it is not refused), and
\* a confirm_booking that has resolved its user holds the id of the users row
\* with its email.
C13_OneUserPerEmail ==
    /\ \A u1 \in users, u2 \in users : u1.email = u2.email => u1.id = u2.id
    /\ out.req.op = "create_user" => out.status = 200
    /\ \A p \in Procs :
          pc[p] \in {"room", "status", "email"} =>
              \E u \in users : u.email = req[p].email /\ u.id = loc[p].user_id

\* C14: notification ordering -- a step dispatches at most one notification,
\* only as the last step of a confirm_booking request, after one booking per
\* room of its list has been inserted and committed; the step that aborts on
\* an unknown room dispatches none; and when the dispatch fails, the users,
\* bookings and room statuses stay as committed.
C14_NotificationOrdering ==
    [][/\ out'.mail # <<>> =>
             /\ Len(out'.mail) = 1
             /\ out'.req.op = "confirm_booking"
             /\ \E p \in Procs : out'.proc = p /\ pc[p] = "email" /\ pc'[p] = "idle"
             /\ Len(out'.booking_ids) = Len(out'.req.room_numbers)
             /\ \A k \in 1..Len(out'.booking_ids) :
                   /\ out'.booking_ids[k].id < nextBookingId
                   /\ \A j \in 1..Len(out'.booking_ids) :
                         j # k => out'.booking_ids[j].id # out'.booking_ids[k].id
       /\ out'.detail = "Room does not exist" => out'.mail = <<>>
       /\ (out'.req.op = "confirm_booking" /\ out'.detail = "SMTP error") =>
             (users' = users /\ bookings' = bookings /\ roomStatus' = roomStatus)]_vars

\* C14 witness: the notification of a two-room request has been dispatched
C14_Witness ==
    /\ out.req.op = "confirm_booking"
    /\ Len(out.req.room_numbers) = 2
    /\ Len(out.mail) = 1
    /\ Len(out.booking_ids) = 2

\* C15: notification recipient and content -- the notification of a
\* successful confirm_booking is addressed to the email of that request and
\* its rows are exactly the (room number, booking code) pairs of the bookings
\* the request created, in the order of the room list.
C15_NotificationContent ==
    (out.req.op = "confirm_booking" /\ out.mail # <<>>) =>
        /\ out.mail[1].to = out.req.email
        /\ Len(out.mail[1].rows) = Len(out.req.room_numbers)
        /\ \A k \in 1..Len(out.mail[1].rows) :
              /\ out.mail[1].rows[k].room_number = out.req.room_numbers[k]
              /\ out.mail[1].rows[k].book_code = out.booking_ids[k].book_code

\* C16: empty room list -- a confirm_booking request with an empty room list
\* is answered 400 in its first step, with users, bookings, room statuses and
\* the id counters unchanged and no notification; no request with an empty
\* list ever gets past that step.
C16_EmptyRoomList ==
    [][/\ (out'.req.op = "confirm_booking" /\ out'.req.room_numbers = <<>>) =>
             /\ out'.status = 400
             /\ out'.mail = <<>>
             /\ store' = store
       /\ \A p \in Procs :
             req'[p].op = "confirm_booking" => req'[p].room_numbers # <<>>]_vars

\* C16 witness: a request with an empty room list has just been refused while
\* no user exists for its email
C16_Witness ==
    /\ out.req.op = "confirm_booking"
    /\ out.req.room_numbers = <<>>
    /\ out.status = 400
    /\ ~\E u \in users : u.email = out.req.email

\* C17: status transitions and frame -- a room's status changes only in the
\* status step of confirm_booking (to "booked", for the room of the list
\* whose booking that request has just inserted) or in the status step of
\* cancel_booking (to "free", for the room of the booking it cancels);
\* get_free_rooms and get_bookings change nothing in the store, create_user
\* and book_room change no room status.
C17_StatusFrame ==
    [][/\ \A r \in RoomIds :
             roomStatus'[r] # roomStatus[r] =>
                 \/ \E p \in Procs :
                       /\ pc[p] = "status"
                       /\ req[p].op = "confirm_booking"
                       /\ roomStatus'[r] = "booked"
                       /\ loc[p].room_id = r
                       /\ \E rm \in RoomTable :
                             rm.id = r /\ rm.room_number = req[p].room_numbers[loc[p].i]
                       /\ Len(loc[p].booking_ids) = loc[p].i
                       /\ loc[p].booking_ids[loc[p].i].id < nextBookingId
                 \/ \E p \in Procs :
                       /\ pc[p] = "free"
                       /\ req[p].op = "cancel_booking"
                       /\ roomStatus'[r] = "free"
                       /\ loc[p].booking.room_id = r
       /\ out'.req.op \in {"get_free_rooms", "get_bookings"} => store' = store
       /\ out'.req.op \in {"create_user", "book_room"} => roomStatus' = roomStatus]_vars

\* C17 witness: a cancellation has completed while another room is booked
C17_Witness ==
    /\ out.req.op = "cancel_booking"
    /\ out.status = 200
    /\ roomStatus[out.booking.room_id] = "free"
    /\ \E r \in RoomIds : roomStatus[r] = "booked"

\* C18: no-rooms signal -- get_free_rooms answers 404 exactly when no room is
\* free for the requested range (every room has a booking overlapping it),
\* and otherwise answers 200 with a non-empty list.
C18_NoRoomsSignal ==
    out.req.op = "get_free_rooms" =>
        LET free == {r \in RoomIds :
                        ~\E b \in BookingsOn(r) :
                            ~(b.check_out <= out.req.check_in
                              \/ b.check_in >= out.req.check_out)}
        IN  /\ out.status \in {200, 404}
            /\ out.status = 404 <=> free = {}
            /\ out.status = 200 => out.rooms # {}

\* C19: cancel frame -- the DELETE of a cancel_booking that goes on to answer
\* 200 removes exactly one booking, the one it looked up, which carries the
\* requested code, and changes no other booking, no user and no status; its
\* status step writes only the status of that booking's room.
C19_CancelFrame ==
    [][\A p \in Procs :
          /\ (pc[p] = "delete" /\ pc'[p] = "free") =>
                /\ loc[p].booking \in bookings
                /\ loc[p].booking.book_id = req[p].book_code
                /\ bookings' = bookings \ {loc[p].booking}
                /\ users' = users
                /\ roomStatus' = roomStatus
          /\ (pc[p] = "free" /\ out'.proc = p /\ out'.status = 200) =>
                /\ bookings' = bookings
                /\ users' = users
                /\ \A r \in RoomIds :
                      r # loc[p].booking.room_id => roomStatus'[r] = roomStatus[r]]_vars

\* C20: referential integrity -- every booking references a row of the rooms
\* table and a row of the users table and carries a booking code.
C20_ReferentialIntegrity ==
    \A b \in bookings :
        /\ b.room_id \in RoomIds
        /\ \E u \in users : u.id = b.user_id
        /\ b.book_id \in Codes
====
